---- MODULE Spec2Model ----
(***************************************************************************)
(* Model of ideogram.py: the generator chromosome_collections, the loop    *)
(* that consumes it, and the script around it.                             *)
(*                                                                         *)
(* Representation.                                                         *)
(*  - A chromosome name is the sequence of the character codes of its      *)
(*    text ("chr10" is <<99,104,114,49,48>>), so that the ordering of      *)
(*    names is the ordering Python gives strings.                          *)
(*  - y coordinates are counted in tenths (chrom_height = 1 is 10,         *)
(*    gene_height = 0.4 is 4), x coordinates in bases.                     *)
(*  - A table (DataFrame) is [columns |-> set of column names,             *)
(*    rows |-> sequence of rows]; a row is a record over the columns.      *)
(*    Only the columns the program reads or writes are kept.               *)
(*  - A colour is its index in the 'Paired' colour map.                    *)
(***************************************************************************)
EXTENDS Integers, Sequences, FiniteSets

VARIABLES
    df,           \* the table passed to chromosome_collections (caller's object)
    y_positions,  \* the lane-offset map passed to chromosome_collections
    height,       \* the lane height passed to chromosome_collections
    del_width,    \* local of chromosome_collections
    groups,       \* keys the groupby iteration has still to visit
    pc,           \* state of the generator
    stdout,       \* what print(chrom) wrote, in order
    ax,           \* collections added to the Axes, in order
    df0,          \* the table as it was when the generator was created
    spc,          \* position of the script
    lane_i,       \* number of iterations done of the lane loop
    ybase,        \* script global
    chrom_ybase,  \* script global
    gene_ybase,   \* script global
    chrom_centers,\* script global
    file,         \* rows of the input file
    ideo,         \* script global: the ideogram table
    yticks        \* tick positions and labels set on the Axes

vars == <<df, y_positions, height, del_width, groups, pc, stdout, ax, df0,
          spc, lane_i, ybase, chrom_ybase, gene_ybase, chrom_centers,
          file, ideo, yticks>>

genvars == <<df, y_positions, height, del_width, groups, pc, stdout, ax, df0>>

scriptvars == <<spc, lane_i, ybase, chrom_ybase, gene_ybase, chrom_centers,
                file, ideo, yticks>>

-----------------------------------------------------------------------------
(* Bounds of the model *)

MaxRows == 3

-----------------------------------------------------------------------------
(* Script constants *)

chrom_height == 10

chrom_spacing == 10

gene_height == 4

gene_padding == 1

PairedLen == 12

(* Decimal digits of n > 0 as character codes: what '%s' does to an int. *)
RECURSIVE Digits(_)
Digits(n) == IF n < 10 THEN <<48 + n>> ELSE Digits(n \div 10) \o <<48 + (n % 10)>>

(* 'chr%s' % i for a suffix already turned into text. *)
ChrName(suffix) == <<99, 104, 114>> \o suffix

chromosome_list ==
    [i \in 1..24 |-> IF i <= 22 THEN ChrName(Digits(i))
                     ELSE IF i = 23 THEN ChrName(<<88>>) ELSE ChrName(<<89>>)]

ListNames == {chromosome_list[i] : i \in 1..Len(chromosome_list)}

(* chromosome_list[::-1] *)
Reversed(s) == [i \in 1..Len(s) |-> s[Len(s) + 1 - i]]

LaneOrderForward == chromosome_list

LaneOrder == Reversed(chromosome_list)

(* The state of the four lane globals after one more iteration of the loop
   over LaneOrder, on chromosome chrom. *)
LaneStep(st, chrom) ==
    LET put(m, v) == [c \in DOMAIN m \cup {chrom} |-> IF c = chrom THEN v ELSE m[c]]
    IN  [ybase         |-> st.ybase + chrom_height + chrom_spacing,
         chrom_ybase   |-> put(st.chrom_ybase, st.ybase),
         chrom_centers |-> put(st.chrom_centers, st.ybase + (chrom_height \div 2)),
         gene_ybase    |-> put(st.gene_ybase, st.ybase - gene_height - gene_padding)]

EmptyMap == [c \in {} |-> 0]

LaneInit == [ybase |-> 0, chrom_ybase |-> EmptyMap, chrom_centers |-> EmptyMap,
             gene_ybase |-> EmptyMap]

RECURSIVE LanesAfter(_)
LanesAfter(k) == IF k = 0 THEN LaneInit ELSE LaneStep(LanesAfter(k - 1), LaneOrder[k])

-----------------------------------------------------------------------------
(* Tables *)

Restrict(m, S) == [c \in S \cap DOMAIN m |-> m[c]]

(* df[name] = values: add or overwrite a column; values is indexed like rows *)
SetColumn(t, name, values) ==
    [columns |-> t.columns \cup {name},
     rows    |-> [i \in 1..Len(t.rows) |->
                    [f \in DOMAIN t.rows[i] \cup {name} |->
                        IF f = name THEN values[i] ELSE t.rows[i][f]]]]

(* del df[name] *)
DelColumn(t, name) ==
    [columns |-> t.columns \ {name},
     rows    |-> [i \in 1..Len(t.rows) |->
                    [f \in DOMAIN t.rows[i] \ {name} |-> t.rows[i][f]]]]

WidthFromEnd(t) == [i \in 1..Len(t.rows) |-> t.rows[i].end]

(* df['end'] - df['start'] *)
WidthColumn(t) == [i \in 1..Len(t.rows) |-> t.rows[i].end - t.rows[i].start]

(* [paired_cm[i % len(paired_cm)] for i in range(0, len(ideo))] *)
ColorColumn(t) == [i \in 1..Len(t.rows) |-> (i - 1) % PairedLen]

-----------------------------------------------------------------------------
(* Python's ordering of str, on character codes *)

RECURSIVE LexLessFrom(_, _, _)
LexLessFrom(a, b, i) ==
    IF i > Len(a) THEN i <= Len(b)
    ELSE IF i > Len(b) THEN FALSE
    ELSE IF a[i] # b[i] THEN a[i] < b[i]
    ELSE LexLessFrom(a, b, i + 1)

LexLess(a, b) == LexLessFrom(a, b, 1)

RECURSIVE SortedSeq(_)
SortedSeq(S) ==
    IF S = {} THEN <<>>
    ELSE LET m == CHOOSE x \in S : \A y \in S \ {x} : LexLess(x, y)
         IN  <<m>> \o SortedSeq(S \ {m})

(* The keys in the order of their first row: what groupby(sort=False) gives *)
RECURSIVE FirstSeen(_)
FirstSeen(rows) ==
    IF rows = <<>> THEN <<>>
    ELSE LET c == rows[1].chrom
         IN  <<c>> \o FirstSeen(SelectSeq(Tail(rows), LAMBDA r : r.chrom # c))

GroupKeysFirstSeen(t) == FirstSeen(t.rows)

GroupKeysDescending(t) == Reversed(SortedSeq({t.rows[i].chrom : i \in 1..Len(t.rows)}))

(* df.groupby('chrom'): the group keys in iteration order. groupby sorts the
   keys (sort=True is its default). *)
GroupKeys(t) == SortedSeq({t.rows[i].chrom : i \in 1..Len(t.rows)})

GroupRowsReversed(t, chrom) ==
    Reversed(SelectSeq(t.rows, LAMBDA r : r.chrom = chrom))

GroupRowsFirst(t, chrom) ==
    SubSeq(SelectSeq(t.rows, LAMBDA r : r.chrom = chrom), 1, 1)

(* The rows of one group: the rows of that key, in table order *)
GroupRows(t, chrom) == SelectSeq(t.rows, LAMBDA r : r.chrom = chrom)

-----------------------------------------------------------------------------
(* chromosome_collections *)

LookupDefault(ypos, chrom) ==
    [found |-> TRUE, y |-> IF chrom \in DOMAIN ypos THEN ypos[chrom] ELSE 0]

(* y_positions[chrom]: the value, or KeyError (found = FALSE) *)
Lookup(ypos, chrom) ==
    IF chrom \in DOMAIN ypos THEN [found |-> TRUE, y |-> ypos[chrom]]
    ELSE [found |-> FALSE, y |-> 0]

RectOpen(xmin, xwidth, ymin, ywidth) ==
    <<  <<xmin, ymin>>, <<xmin, ywidth>>, <<xmin + xwidth, ywidth>>,
        <<xmin + xwidth, ymin>>, <<xmin, ymin>> >>

(* One element of verts *)
Rect(xmin, xwidth, ymin, ywidth) ==
    LET ymax == ymin + ywidth
    IN  <<  <<xmin, ymin>>, <<xmin, ymax>>, <<xmin + xwidth, ymax>>,
            <<xmin + xwidth, ymin>>, <<xmin, ymin>> >>

(* PolyCollection(verts, facecolors=group['colors']) for one group *)
Collection(group, ymin, ywidth) ==
    [verts      |-> [i \in 1..Len(group) |->
                        Rect(group[i].start, group[i].width, ymin, ywidth)],
     facecolors |-> [i \in 1..Len(group) |-> group[i].colors]]

(* Lines 56-59, on table t: <<del_width, table>> *)
Prologue(t) ==
    IF "width" \notin t.columns
    THEN [del_width |-> TRUE, df |-> SetColumn(t, "width", WidthColumn(t))]
    ELSE [del_width |-> FALSE, df |-> t]

(* The generator runs from the top of the for loop, with keys left to visit,
   to its next yield, to the KeyError, or to its return. A yielded collection
   is added to the Axes by the consuming loop. *)
Iterate(t, dw, keys) ==
    IF keys = <<>>
    THEN /\ pc' = "done"
         /\ df' = IF dw THEN DelColumn(t, "width") ELSE t
         /\ groups' = keys
         /\ UNCHANGED <<stdout, ax>>
    ELSE LET chrom == Head(keys)
             lane  == Lookup(y_positions, chrom)
         IN  /\ stdout' = Append(stdout, chrom)
             /\ df' = t
             /\ groups' = Tail(keys)
             /\ IF lane.found
                THEN /\ pc' = "suspended"
                     /\ ax' = Append(ax, Collection(GroupRows(t, chrom), lane.y, height))
                ELSE /\ pc' = "error"
                     /\ UNCHANGED ax

(* The first next() on the generator *)
FirstNext ==
    /\ pc = "created"
    /\ LET p == Prologue(df)
       IN  /\ del_width' = p.del_width
           /\ Iterate(p.df, p.del_width, GroupKeys(p.df))
    /\ UNCHANGED <<y_positions, height, df0>>

(* A later next() on the generator *)
ResumeNext ==
    /\ pc = "suspended"
    /\ Iterate(df, del_width, groups)
    /\ UNCHANGED <<y_positions, height, del_width, df0>>

(* The consumer stops iterating and drops the generator: Python closes it, the
   GeneratorExit is raised at the yield and nothing after the loop runs. A
   generator that was never started runs nothing at all. *)
Abandon ==
    /\ pc \in {"created", "suspended"}
    /\ pc' = "closed"
    /\ UNCHANGED <<df, y_positions, height, del_width, groups, stdout, ax, df0>>

(* Everything a consuming loop receives from the generator given table t: the
   collections of the groups in iteration order, up to the first key without
   a lane. *)
RECURSIVE YieldedFrom(_, _, _, _)
YieldedFrom(t, ypos, h, keys) ==
    IF keys = <<>> THEN <<>>
    ELSE LET lane == Lookup(ypos, Head(keys))
         IN  IF lane.found
             THEN <<Collection(GroupRows(t, Head(keys)), lane.y, h)>>
                  \o YieldedFrom(t, ypos, h, Tail(keys))
             ELSE <<>>

Yielded(t, ypos, h) == YieldedFrom(Prologue(t).df, ypos, h, GroupKeys(Prologue(t).df))

-----------------------------------------------------------------------------
(* Specification of chromosome_collections under any caller *)

Chroms == {ChrName(Digits(1)), ChrName(Digits(10)), ChrName(Digits(2))}

Intervals == {<<0, 300>>, <<100, 500>>}

OtherWidth == 50

BaseRows == [chrom : Chroms, iv : Intervals]

BaseTables == UNION {[1..n -> BaseRows] : n \in 0..MaxRows}

(* A table with columns chrom, start, end and colors *)
TableOf(b) ==
    LET t == [columns |-> {"chrom", "start", "end"},
              rows |-> [i \in 1..Len(b) |->
                          [chrom |-> b[i].chrom, start |-> b[i].iv[1], end |-> b[i].iv[2]]]]
    IN  SetColumn(t, "colors", ColorColumn(t))

InputTables ==
    {TableOf(b) : b \in BaseTables}
    \cup {SetColumn(TableOf(b), "width", WidthColumn(TableOf(b))) : b \in BaseTables}
    \cup {SetColumn(TableOf(b), "width", [i \in 1..Len(b) |-> OtherWidth]) : b \in BaseTables}

ScriptIdle ==
    /\ spc = "none"
    /\ lane_i = 0
    /\ ybase = 0
    /\ chrom_ybase = EmptyMap
    /\ gene_ybase = EmptyMap
    /\ chrom_centers = EmptyMap
    /\ file = <<>>
    /\ ideo = [columns |-> {}, rows |-> <<>>]
    /\ yticks = <<>>

GenCreated(t, ypos, h) ==
    /\ df = t
    /\ df0 = t
    /\ y_positions = ypos
    /\ height = h
    /\ del_width = FALSE
    /\ groups = <<>>
    /\ pc = "created"
    /\ stdout = <<>>
    /\ ax = <<>>

Init ==
    /\ ScriptIdle
    /\ \E t \in InputTables, S \in SUBSET Chroms, track \in {"ideogram", "genes"} :
          LET lanes == LanesAfter(Len(LaneOrder))
          IN  IF track = "ideogram"
              THEN GenCreated(t, Restrict(lanes.chrom_ybase, S), chrom_height)
              ELSE GenCreated(t, Restrict(lanes.gene_ybase, S), gene_height)

Next ==
    \/ FirstNext /\ UNCHANGED scriptvars
    \/ ResumeNext /\ UNCHANGED scriptvars
    \/ Abandon /\ UNCHANGED scriptvars

Spec == Init /\ [][Next]_vars

-----------------------------------------------------------------------------
(* The script *)

FileChroms == {ChrName(Digits(2)), ChrName(Digits(10)), ChrName(<<77>>), Digits(1)}

FileRows == [chrom : FileChroms, iv : Intervals]

Files == UNION {[1..n -> FileRows] : n \in 0..MaxRows}

NoTable == [columns |-> {}, rows |-> <<>>]

GenNone ==
    /\ df = NoTable
    /\ df0 = NoTable
    /\ y_positions = EmptyMap
    /\ height = 0
    /\ del_width = FALSE
    /\ groups = <<>>
    /\ pc = "none"
    /\ stdout = <<>>
    /\ ax = <<>>

(* Lines 79-102: the globals before the lane loop *)
ScriptInit ==
    /\ GenNone
    /\ spc = "lanes"
    /\ lane_i = 0
    /\ ybase = LaneInit.ybase
    /\ chrom_ybase = LaneInit.chrom_ybase
    /\ gene_ybase = LaneInit.gene_ybase
    /\ chrom_centers = LaneInit.chrom_centers
    /\ file \in Files
    /\ ideo = NoTable
    /\ yticks = <<>>

(* One iteration of the lane loop *)
LaneLoop ==
    /\ spc = "lanes"
    /\ lane_i < Len(LaneOrder)
    /\ LET st == LaneStep([ybase |-> ybase, chrom_ybase |-> chrom_ybase,
                           chrom_centers |-> chrom_centers, gene_ybase |-> gene_ybase],
                          LaneOrder[lane_i + 1])
       IN  /\ ybase' = st.ybase
           /\ chrom_ybase' = st.chrom_ybase
           /\ chrom_centers' = st.chrom_centers
           /\ gene_ybase' = st.gene_ybase
    /\ lane_i' = lane_i + 1
    /\ UNCHANGED <<spc, file, ideo, yticks>>
    /\ UNCHANGED genvars

(* pandas.read_table(...) *)
ReadTable ==
    /\ spc = "lanes"
    /\ lane_i = Len(LaneOrder)
    /\ ideo' = [columns |-> {"chrom", "start", "end"},
                rows |-> [i \in 1..Len(file) |->
                            [chrom |-> file[i].chrom, start |-> file[i].iv[1],
                             end |-> file[i].iv[2]]]]
    /\ spc' = "filter"
    /\ UNCHANGED <<lane_i, ybase, chrom_ybase, gene_ybase, chrom_centers, file, yticks>>
    /\ UNCHANGED genvars

KeepAll(t) == t

(* ideo[ideo.chrom.apply(lambda x: x in chromosome_list)] *)
Whitelisted(t) ==
    [columns |-> t.columns,
     rows    |-> SelectSeq(t.rows, LAMBDA r : r.chrom \in ListNames)]

FilterRows ==
    /\ spc = "filter"
    /\ ideo' = Whitelisted(ideo)
    /\ spc' = "width"
    /\ UNCHANGED <<lane_i, ybase, chrom_ybase, gene_ybase, chrom_centers, file, yticks>>
    /\ UNCHANGED genvars

(* ideo['width'] = ideo.end - ideo.start *)
AddWidth ==
    /\ spc = "width"
    /\ ideo' = SetColumn(ideo, "width", WidthColumn(ideo))
    /\ spc' = "colors"
    /\ UNCHANGED <<lane_i, ybase, chrom_ybase, gene_ybase, chrom_centers, file, yticks>>
    /\ UNCHANGED genvars

(* ideo['colors'] = [...] *)
AddColors ==
    /\ spc = "colors"
    /\ ideo' = SetColumn(ideo, "colors", ColorColumn(ideo))
    /\ spc' = "figure"
    /\ UNCHANGED <<lane_i, ybase, chrom_ybase, gene_ybase, chrom_centers, file, yticks>>
    /\ UNCHANGED genvars

(* The figure and Axes are created and chromosome_collections(ideo,
   chrom_ybase, chrom_height) is called: that creates the generator. *)
CallLayout ==
    /\ spc = "figure"
    /\ df' = ideo
    /\ df0' = ideo
    /\ y_positions' = chrom_ybase
    /\ height' = chrom_height
    /\ del_width' = FALSE
    /\ groups' = <<>>
    /\ pc' = "created"
    /\ stdout' = <<>>
    /\ ax' = <<>>
    /\ spc' = "layout"
    /\ UNCHANGED <<lane_i, ybase, chrom_ybase, gene_ybase, chrom_centers, file,
                   ideo, yticks>>

(* One turn of `for collection in chromosome_collections(...)`. df is the
   object ideo, so what the generator does to df is done to ideo. *)
LayoutFirst ==
    /\ spc = "layout"
    /\ FirstNext
    /\ ideo' = df'
    /\ UNCHANGED <<spc, lane_i, ybase, chrom_ybase, gene_ybase, chrom_centers,
                   file, yticks>>

LayoutResume ==
    /\ spc = "layout"
    /\ ResumeNext
    /\ ideo' = df'
    /\ UNCHANGED <<spc, lane_i, ybase, chrom_ybase, gene_ybase, chrom_centers,
                   file, yticks>>

(* ax.set_yticks, ax.set_yticklabels, then the figure is shown *)
SetTicks ==
    /\ spc = "layout"
    /\ pc = "done"
    /\ yticks' = [i \in 1..Len(chromosome_list) |->
                    [pos |-> chrom_centers[chromosome_list[i]],
                     label |-> chromosome_list[i]]]
    /\ spc' = "show"
    /\ UNCHANGED <<lane_i, ybase, chrom_ybase, gene_ybase, chrom_centers, file, ideo>>
    /\ UNCHANGED genvars

ScriptNext ==
    \/ LaneLoop
    \/ ReadTable
    \/ FilterRows
    \/ AddWidth
    \/ AddColors
    \/ CallLayout
    \/ LayoutFirst
    \/ LayoutResume
    \/ SetTicks

SpecScript == ScriptInit /\ [][ScriptNext]_vars

-----------------------------------------------------------------------------
(* Vocabulary of the properties *)

Last(s) == s[Len(s)]

(* The categories of the table the generator was given *)
Categories == {df0.rows[i].chrom : i \in 1..Len(df0.rows)}

(* The row numbers of category c in the table the generator was given,
   ascending *)
IdxOf(c) ==
    SelectSeq([i \in 1..Len(df0.rows) |-> i], LAMBDA i : df0.rows[i].chrom = c)

FirstRow(c) == IdxOf(c)[1]

(* The width of a record of the given table: its width column, or end - start
   when the table has none *)
RowWidth(r) == IF "width" \in df0.columns THEN r.width ELSE r.end - r.start

Missing == {c \in Categories : c \notin DOMAIN y_positions}

RECURSIVE SumLens(_)
SumLens(batches) ==
    IF batches = <<>> THEN 0 ELSE Len(batches[1].verts) + SumLens(Tail(batches))

(* The closed ring of the spec: (x0,y0) (x0,y1) (x1,y1) (x1,y0) (x0,y0) *)
Ring(x0, x1, y0, y1) ==
    << <<x0, y0>>, <<x0, y1>>, <<x1, y1>>, <<x1, y0>>, <<x0, y0>> >>

-----------------------------------------------------------------------------
(* C1: a category without a lane ends the run in the missing-lane error,
   raised when that category is processed; the run never completes normally
   with such a category in the table, and no batch is ever emitted for a
   category without a lane. *)
C1_MissingLaneRaises ==
    /\ pc = "done" => Missing = {}
    /\ pc = "error" => /\ stdout # <<>>
                       /\ Last(stdout) \in Missing
                       /\ Len(ax) = Len(stdout) - 1
    /\ \A i \in 1..Len(ax) : stdout[i] \in DOMAIN y_positions
    /\ (pc = "suspended" /\ Missing # {}) => groups # <<>>

C1_Witness == pc = "error" /\ Len(ax) >= 1 /\ Cardinality(Missing) >= 1

(* C2: when every category has a lane, a full run emits one batch per
   distinct category, each category once, batch i holding as many polygons as
   its category has records, the polygons adding up to the record count. *)
C2_OneBatchPerCategory ==
    (Missing = {}) =>
        /\ pc # "error"
        /\ pc = "done" =>
              /\ Len(ax) = Cardinality(Categories)
              /\ Len(stdout) = Len(ax)
              /\ {stdout[i] : i \in 1..Len(stdout)} = Categories
              /\ \A i \in 1..Len(ax) : Len(ax[i].verts) = Len(IdxOf(stdout[i]))
              /\ SumLens(ax) = Len(df0.rows)

C2_Witness ==
    /\ pc = "done"
    /\ Len(ax) = 2
    /\ Len(df0.rows) = 3

(* C3 as stated: batches come out in the order in which their categories are
   first met in the rows. *)
C3_FirstEncounterOrder ==
    \A i, j \in 1..Len(ax) :
        i < j => FirstRow(stdout[i]) < FirstRow(stdout[j])

(* C3 amended: batches come out in ascending order of the category names as
   Python orders strings, whatever the order of the rows. *)
C3_SortedKeyOrder ==
    \A i, j \in 1..Len(ax) : i < j => LexLess(stdout[i], stdout[j])

C3_Witness ==
    /\ Len(ax) >= 2
    /\ FirstRow(stdout[1]) > FirstRow(stdout[2])

(* C4: every polygon of the batch of category c is the closed 5-vertex ring
   of a record of c, between y0 = y_positions[c] and y1 = y0 + height. *)
C4_PolygonShape ==
    \A i \in 1..Len(ax) :
        LET c  == stdout[i]
            y0 == y_positions[c]
            y1 == y0 + height
        IN  \A k \in 1..Len(ax[i].verts) :
                LET p == ax[i].verts[k]
                IN  /\ Len(p) = 5
                    /\ p[1] = p[5]
                    /\ p[1][2] = y0 /\ p[4][2] = y0
                    /\ p[2][2] = y1 /\ p[3][2] = y1
                    /\ \E n \in 1..Len(df0.rows) :
                          LET r == df0.rows[n]
                          IN  /\ r.chrom = c
                              /\ p = Ring(r.start, r.start + RowWidth(r), y0, y1)

C4_Witness ==
    /\ Len(ax) >= 1
    /\ ax[1].verts # <<>>
    /\ y_positions[stdout[1]] > 0
    /\ "width" \in df0.columns
    /\ df0.rows[1].width # df0.rows[1].end - df0.rows[1].start

(* C5: given a table without a width column, every rectangle spans exactly
   [start, end], and what the run emits is what it emits for the same table
   given with a width column holding end - start. *)
C5_DerivedWidth ==
    ("width" \notin df0.columns) =>
        LET explicit == SetColumn(df0, "width",
                            [n \in 1..Len(df0.rows) |-> df0.rows[n].end - df0.rows[n].start])
            out == Yielded(explicit, y_positions, height)
        IN  /\ \A i \in 1..Len(ax) :
                  /\ Len(ax[i].verts) = Len(IdxOf(stdout[i]))
                  /\ \A k \in 1..Len(ax[i].verts) :
                        LET r == df0.rows[IdxOf(stdout[i])[k]]
                            p == ax[i].verts[k]
                        IN  /\ p[1][1] = r.start /\ p[2][1] = r.start
                            /\ p[3][1] = r.end /\ p[4][1] = r.end
                            /\ p[3][1] - p[1][1] = r.end - r.start
            /\ Len(ax) <= Len(out)
            /\ ax = SubSeq(out, 1, Len(ax))
            /\ pc \in {"done", "error"} => ax = out

C5_Witness ==
    /\ "width" \notin df0.columns
    /\ pc = "done"
    /\ Len(ax) >= 2
    /\ \E i \in 1..Len(ax) : Len(ax[i].verts) >= 2

(* C6: in every batch the polygons stand in the order of their records in the
   table, and the k-th colour is the colour of the record of the k-th
   polygon. *)
C6_OrderAndColours ==
    \A i \in 1..Len(ax) :
        LET idx == IdxOf(stdout[i])
        IN  /\ Len(ax[i].verts) = Len(idx)
            /\ Len(ax[i].facecolors) = Len(idx)
            /\ \A k \in 1..Len(idx) :
                  LET r == df0.rows[idx[k]]
                  IN  /\ ax[i].verts[k][1][1] = r.start
                      /\ ax[i].verts[k][3][1] = r.start + RowWidth(r)
                      /\ ax[i].facecolors[k] = r.colors

C6_Witness ==
    \E i \in 1..Len(ax) :
        /\ Len(ax[i].verts) >= 2
        /\ ax[i].verts[1][1][1] # ax[i].verts[2][1][1]
        /\ ax[i].facecolors[1] # ax[i].facecolors[2]

(* C7 as stated: however the batch sequence ends (exhausted, abandoned,
   aborted by the missing-lane error), the caller's table has afterwards the
   columns and rows it had before the call. *)
C7_TableRestored ==
    pc \in {"done", "closed", "error"} => df = df0

(* C8 as stated: in a run that ends in the missing-lane error no batch has
   been handed to the drawing surface. *)
C8_NoPartialOutput ==
    pc = "error" => ax = <<>>

(* C8 amended: in a run that ends in the missing-lane error, the batches
   handed to the drawing surface are exactly those of the categories that sort
   before the category that raised it, which is the least category without a
   lane; nothing of that category or of a later one is handed over. *)
C8_OutputBeforeError ==
    pc = "error" =>
        LET bad == Last(stdout)
        IN  /\ bad \in Missing
            /\ \A c \in Missing : c = bad \/ LexLess(bad, c)
            /\ Len(ax) = Len(stdout) - 1
            /\ {stdout[i] : i \in 1..Len(ax)} = {c \in Categories : LexLess(c, bad)}
            /\ \A i \in 1..Len(ax) : Len(ax[i].verts) = Len(IdxOf(stdout[i]))
            /\ groups = SortedSeq({c \in Categories : LexLess(bad, c)})

C8_Witness ==
    /\ pc = "error"
    /\ Len(ax) >= 1
    /\ groups # <<>>

(* C9: in the script every record that reaches chromosome_collections has a
   lane in chrom_ybase, the records of the file with any other category do not
   reach it, and the missing-lane error does not happen. *)
C9_MissingLaneUnreachable ==
    /\ pc # "error"
    /\ spc \in {"layout", "show"} =>
          /\ y_positions = chrom_ybase
          /\ \A n \in 1..Len(df.rows) : df.rows[n].chrom \in DOMAIN chrom_ybase
          /\ [n \in 1..Len(df0.rows) |-> <<df0.rows[n].chrom, df0.rows[n].start, df0.rows[n].end>>]
               = [n \in 1..Len(SelectSeq(file, LAMBDA f : f.chrom \in DOMAIN chrom_ybase)) |->
                    LET f == SelectSeq(file, LAMBDA g : g.chrom \in DOMAIN chrom_ybase)[n]
                    IN  <<f.chrom, f.iv[1], f.iv[2]>>]

C9_Witness ==
    /\ spc = "show"
    /\ Len(ax) >= 2
    /\ Len(file) > Len(df0.rows)

(* C10: once the lane loop is over, the item at index i (from 0) of the n
   items of chromosome_list has base y (n-1-i) * (chrom_height +
   chrom_spacing); earlier items are strictly higher; the ranges
   [y0, y0 + chrom_height] of two chromosomes do not overlap; each centre is
   y0 + chrom_height/2, inside its lane, and is where the tick is put. *)
C10_LaneGeometry ==
    (spc # "none" /\ lane_i = Len(chromosome_list)) =>
        LET n == Len(chromosome_list)
            y0(i) == chrom_ybase[chromosome_list[i]]
        IN  /\ DOMAIN chrom_ybase = ListNames
            /\ DOMAIN chrom_centers = ListNames
            /\ \A i \in 1..n : y0(i) = (n - i) * (chrom_height + chrom_spacing)
            /\ \A i, j \in 1..n : i < j => y0(i) > y0(j)
            /\ \A i, j \in 1..n :
                  i # j => (y0(i) + chrom_height < y0(j) \/ y0(j) + chrom_height < y0(i))
            /\ \A i \in 1..n :
                  LET c == chrom_centers[chromosome_list[i]]
                  IN  /\ 2 * c = 2 * y0(i) + chrom_height
                      /\ y0(i) < c /\ c < y0(i) + chrom_height
            /\ spc = "show" =>
                  \A i \in 1..n :
                      /\ yticks[i].label = chromosome_list[i]
                      /\ yticks[i].pos = chrom_centers[chromosome_list[i]]
                      /\ y0(i) < yticks[i].pos /\ yticks[i].pos < y0(i) + chrom_height

C10_Witness ==
    /\ spc = "show"
    /\ Len(ax) >= 1

====
